---- MODULE Spec2Model ----
(***************************************************************************)
(* A model of the arkitekt sidecar (main.go): the startup in main(), the   *)
(* HTTP front door (TailscaleProxy.ServeHTTP), the forward proxy           *)
(* (handleHTTP), the CONNECT tunnel handler (handleTunnel), the status API *)
(* (startStatusServer) and the JSON form of its document.                  *)
(*                                                                         *)
(* Every inbound request runs in its own goroutine of net/http; a session  *)
(* s \in Sess is one such goroutine, pc[s] is its position in the handler. *)
(* The collaborators (Dialer, RoundTripper, the two peers of a tunnel, the *)
(* overlay node) are the environment: their answers are drawn with \E.     *)
(***************************************************************************)
EXTENDS Integers, Sequences, FiniteSets, TLC

\* ------------------------------------------------------------- bounds
\* Concurrent inbound requests (handler goroutines).
NumSess == 1
\* Peers in a snapshot of the overlay node's status.
MaxPeers == 2
\* Bytes each peer of a tunnel has to send.
MaxBytes == 2

Sess == 1..NumSess
\* The two concurrent tunnels of the independence property.
PairSess == {1, 2}
\* Every handler goroutine the model has state for.
Slots == Sess \cup PairSess

\* ---------------------------------------------------------- constants
MethodConnect == "CONNECT"
Methods == {"CONNECT", "GET", "POST"}

StatusOK == 200
StatusInternalServerError == 500
StatusBadGateway == 502
StatusServiceUnavailable == 503

Line200 == "HTTP/1.1 200 Connection Established\r\n\r\n"
Line502 == "HTTP/1.1 502 Bad Gateway\r\n\r\n"

\* The byte streams of a tunnel's two peers: what the client sends after its
\* CONNECT request and what the target sends once dialled.
ClientStream == [i \in 1..MaxBytes |-> "c" \o ToString(i)]
TargetStream == [i \in 1..MaxBytes |-> "t" \o ToString(i)]

\* -------------------------------------------------- http.Header, writer
RawKeys == {"Content-Type", "Set-Cookie", "x-trace", "X-Trace"}
CanonKeys == {"Content-Type", "Set-Cookie", "X-Trace", "X-Content-Type-Options"}

\* textproto.CanonicalMIMEHeaderKey, on the keys of the model.
CanonicalKey(k) == IF k = "x-trace" THEN "X-Trace" ELSE k

EmptyHeader == [k \in CanonKeys |-> <<>>]

\* http.Header.Add: append v to the values of the canonical key.
HeaderAdd(h, k, v) == [h EXCEPT ![CanonicalKey(k)] = Append(@, v)]

\* http.Header.Set: replace the values of the canonical key.
HeaderSet(h, k, v) == [h EXCEPT ![CanonicalKey(k)] = <<v>>]

\* The inner loop of handleHTTP: for _, v := range vv { w.Header().Add(k, v) }
RECURSIVE AddAll(_, _, _)
AddAll(h, k, vv) ==
    IF vv = <<>> THEN h ELSE AddAll(HeaderAdd(h, k, Head(vv)), k, Tail(vv))

\* A fresh http.ResponseWriter: header map, status (0: not yet written), the
\* header as sent with the status line, and the body chunks written.
NewWriter == [header |-> EmptyHeader, status |-> 0, sent |-> EmptyHeader, body |-> <<>>]

\* ResponseWriter.WriteHeader: the first call fixes the status and sends the
\* header map as it is at that moment; later calls are ignored.
WriteHeader(w, code) ==
    IF w.status # 0 THEN w
    ELSE [w EXCEPT !.status = code, !.sent = w.header]

\* ResponseWriter.Write: an implicit WriteHeader(200) if none happened.
WriterWrite(w, chunk) ==
    LET w1 == WriteHeader(w, StatusOK) IN [w1 EXCEPT !.body = Append(@, chunk)]

\* http.Error: plain-text content type, the status, the message and "\n".
HttpError(w, msg, code) ==
    LET h1 == HeaderSet(w.header, "Content-Type", "text/plain; charset=utf-8")
        h2 == HeaderSet(h1, "X-Content-Type-Options", "nosniff")
        w1 == WriteHeader([w EXCEPT !.header = h2], code)
    IN  WriterWrite(w1, msg \o "\n")

\* ------------------------------------------------ environment's answers
NoHeader == [k \in RawKeys |-> <<>>]

\* What Transport.RoundTrip can return on success: status, header, body.
Responses ==
    { [status |-> 200, header |-> NoHeader, body |-> <<>>],
      [status |-> 200,
       header |-> [NoHeader EXCEPT !["Content-Type"] = <<"text/html">>],
       body |-> <<"b1">>],
      [status |-> 404,
       header |-> [NoHeader EXCEPT !["Set-Cookie"] = <<"a=1", "b=2">>,
                                   !["x-trace"] = <<"t1">>],
       body |-> <<"b1", "b2">>],
      [status |-> 503,
       header |-> [NoHeader EXCEPT !["x-trace"] = <<"t1">>,
                                   !["X-Trace"] = <<"t2", "t3">>],
       body |-> <<"b1">>] }

NoResponse == [status |-> 0, header |-> NoHeader, body |-> <<>>]

TransportErrors == {"dial tcp: i/o timeout"}

\* The host:port targets clients ask for.
Hosts == {"target:443", "db:5432"}

\* How the ResponseWriter answers the http.Hijacker assertion and Hijack().
HijackModes == {"ok", "unsupported", "error"}

\* The status API has answered nothing yet. A response records its path, what
\* was written to its ResponseWriter, the JSON document encoded into it, the
\* calls made to the overlay node and the node's health as the handler met it.
NoSnapshot == [BackendState |-> "", hasSelf |-> FALSE, Peer |-> {}]
NoStatusResp ==
    [path |-> "", w |-> NewWriter, json |-> <<>>, calls |-> 0,
     seen |-> [lc |-> TRUE, st |-> TRUE], snap |-> NoSnapshot]

VARIABLES
    proc,      \* the process: "starting", "serving" or "exited"
    pc,        \* pc[s]: position of session s in its handler
    req,       \* req[s]: the inbound request (method, host, hijack mode, context)
    handled,   \* handled[s]: the handlers ServeHTTP invoked for the request
    w,         \* w[s]: the http.ResponseWriter of the request
    rt,        \* rt[s]: RoundTrip calls, result and relay progress
    conn,      \* conn[s]: the raw connections of a tunnel and what was written
    tun,       \* tun[s]: dial bookkeeping and the two copy loops
    faulted,   \* some request has been answered with a per-request fault
    statusLn,  \* the status listener: "off", "starting", "up" or "failed"
    overlay,   \* whether the overlay node's LocalClient and Status succeed
    sresp,     \* the last response of the status API
    boot,      \* main(): its position, configuration, signals and listener
    codec,     \* a value on its way through json.Marshal and json.Unmarshal
    socks      \* socks[s]: the dial of SOCKS5 client session s

proxyVars == <<pc, req, handled, w, rt, conn, tun, faulted>>
statusVars == <<statusLn, overlay, sresp>>
mainVars == <<boot, codec, socks>>
vars == <<proc, pc, req, handled, w, rt, conn, tun, faulted, statusLn, overlay, sresp,
          boot, codec, socks>>

NoReq == [method |-> "", host |-> "", hijack |-> "ok", ctx |-> ""]
NewRt == [calls |-> 0, result |-> "none", err |-> "", resp |-> NoResponse,
          left |-> {}, pos |-> 0, bodyClosed |-> FALSE]
NewConn == [client |-> "none", target |-> "none", clientOut |-> <<>>, targetOut |-> <<>>]
NewTun == [dialCalls |-> 0, dialArgs |-> <<>>, dial |-> "none",
           c2t |-> "idle", t2c |-> "idle", cPos |-> 0, tPos |-> 0, buffered |-> 0]

\* ------------------------------------------------------------------ main
\* The magic words of the IPC signalling.
SignalStarting == "@@SIDECAR:STARTING@@"
SignalConnecting == "@@SIDECAR:CONNECTING@@"
SignalConnected == "@@SIDECAR:CONNECTED@@"
SignalListening == "@@SIDECAR:LISTENING@@"
SignalReady == "@@SIDECAR:READY@@"
SignalError == "@@SIDECAR:ERROR@@"

\* The flags that select the proxy, the status port and the state directory.
Modes == {"http", "socks5", "ftp"}
StatusPorts == {"", "9090"}
StateDirs == {"", "/state"}

\* main() before its first statement. signals is what signal() printed to
\* stdout, started the proxy listeners ListenAndServe was called for, ln
\* whether the proxy listener is bound, fault/exit/diag what log.Fatal left.
NewBoot(mode, port, dir) ==
    [pc |-> "start", mode |-> mode, statusPort |-> port, stateDir |-> dir,
     signals |-> <<>>, started |-> <<>>, ln |-> "none",
     fault |-> "", exit |-> 0, diag |-> ""]

\* main() serving in HTTP mode after a startup without faults.
Booted(port) ==
    [pc |-> "serving", mode |-> "http", statusPort |-> port, stateDir |-> "/state",
     signals |-> <<SignalStarting, SignalConnecting, SignalConnected,
                   SignalListening, SignalReady>>,
     started |-> <<"http">>, ln |-> "bound",
     fault |-> "", exit |-> 0, diag |-> ""]

\* signal(sig, ...): one line on stdout.
Signal(b, sig) == [b EXCEPT !.signals = Append(@, sig)]

\* A fatal path that ends the process with status 0 and no diagnostic.
MutFatalExitsZero(b, fault, msg) ==
    [Signal(b, SignalError) EXCEPT !.fault = fault, !.pc = "exited"]

\* A fatal path that logs and exits without printing the ERROR signal.
MutFatalNoSignal(b, fault, msg) ==
    [b EXCEPT !.fault = fault, !.diag = msg, !.exit = 1, !.pc = "exited"]

\* signal(SignalError, ...) followed by log.Fatal: the diagnostic goes to
\* stderr and the process exits with status 1.
Fatal(b, fault, msg) ==
    [Signal(b, SignalError) EXCEPT
        !.fault = fault, !.diag = msg, !.exit = 1, !.pc = "exited"]

\* The process state a boot record implies.
ProcOf(b) == IF b.pc = "exited" THEN "exited"
             ELSE IF b.pc = "serving" THEN "serving" ELSE "starting"

\* signal(SignalStarting, "v"+version).
MainStarting ==
    /\ boot.pc = "start"
    /\ boot' = [Signal(boot, SignalStarting) EXCEPT !.pc = "statedir"]
    /\ UNCHANGED <<proc, proxyVars, statusVars, codec, socks>>

\* An empty -statedir defaults to os.Getwd(); the
\* directory is then created with os.MkdirAll.
MainStateDir ==
    /\ boot.pc = "statedir"
    /\ boot' = [boot EXCEPT !.pc = "connecting",
                            !.stateDir = IF @ = "" THEN "/cwd" ELSE @]
    /\ UNCHANGED <<proc, proxyVars, statusVars, codec, socks>>

\* os.Getwd() fails.
MainGetwdFails ==
    /\ boot.pc = "statedir"
    /\ boot.stateDir = ""
    /\ boot' = Fatal(boot, "getwd", "!!! Failed to get current working directory")
    /\ proc' = ProcOf(boot')
    /\ UNCHANGED <<proxyVars, statusVars, codec, socks>>

\* os.MkdirAll(stateDir, 0700) fails.
MainMkdirFails ==
    /\ boot.pc = "statedir"
    /\ boot' = Fatal(boot, "statedir", "!!! Failed to create state directory")
    /\ proc' = ProcOf(boot')
    /\ UNCHANGED <<proxyVars, statusVars, codec, socks>>

\* The tsnet.Server is built and signal(SignalConnecting, hostname) printed.
MainConnecting ==
    /\ boot.pc = "connecting"
    /\ boot' = [Signal(boot, SignalConnecting) EXCEPT !.pc = "up"]
    /\ UNCHANGED <<proc, proxyVars, statusVars, codec, socks>>

\* s.Up(ctx) returns a status within the 60 seconds of ctx.
MainUp ==
    /\ boot.pc = "up"
    /\ boot' = [Signal(boot, SignalConnected) EXCEPT !.pc = "status"]
    /\ UNCHANGED <<proc, proxyVars, statusVars, codec, socks>>

\* s.Up(ctx) returns an error, the expiry of ctx included.
MainUpFails ==
    /\ boot.pc = "up"
    /\ boot' = Fatal(boot, "bringup", "!!! Failed to connect to Tailnet")
    /\ proc' = ProcOf(boot')
    /\ UNCHANGED <<proxyVars, statusVars, codec, socks>>

\* A main() that starts the status server whatever -status-port says.
MutStatusAlways(port) == "starting"

\* if statusPort != "" { go startStatusServer(s, statusPort) }
StatusGoroutine(port) == IF port # "" THEN "starting" ELSE "off"

MainStatus ==
    /\ boot.pc = "status"
    /\ statusLn' = StatusGoroutine(boot.statusPort)
    /\ boot' = [boot EXCEPT !.pc = "mode"]
    /\ UNCHANGED <<proc, proxyVars, overlay, sresp, codec, socks>>

\* case "http": LISTENING and READY are signalled, then ListenAndServe runs.
MainHTTP ==
    /\ boot.pc = "mode"
    /\ boot.mode = "http"
    /\ boot' = [Signal(Signal(boot, SignalListening), SignalReady) EXCEPT !.pc = "listen"]
    /\ UNCHANGED <<proc, proxyVars, statusVars, codec, socks>>

\* case "socks5": socks5.New(conf) succeeds, LISTENING and READY are
\* signalled, then ListenAndServe runs.
MainSocks5 ==
    /\ boot.pc = "mode"
    /\ boot.mode = "socks5"
    /\ boot' = [Signal(Signal(boot, SignalListening), SignalReady) EXCEPT !.pc = "listen"]
    /\ UNCHANGED <<proc, proxyVars, statusVars, codec, socks>>

\* case "socks5": socks5.New(conf) fails.
MainSocks5NewFails ==
    /\ boot.pc = "mode"
    /\ boot.mode = "socks5"
    /\ boot' = Fatal(boot, "socks5", "!!! Failed to create SOCKS5 server")
    /\ proc' = ProcOf(boot')
    /\ UNCHANGED <<proxyVars, statusVars, codec, socks>>

\* default: the mode is neither http nor socks5.
MainUnknownMode ==
    /\ boot.pc = "mode"
    /\ boot.mode \notin {"http", "socks5"}
    /\ boot' = Fatal(boot, "mode", "!!! Unknown mode '" \o boot.mode \o "'. Use 'http' or 'socks5'")
    /\ proc' = ProcOf(boot')
    /\ UNCHANGED <<proxyVars, statusVars, codec, socks>>

\* ListenAndServe of the chosen proxy binds its address and serves.
MainListen ==
    /\ boot.pc = "listen"
    /\ boot' = [boot EXCEPT !.started = Append(@, boot.mode), !.ln = "bound",
                            !.pc = "serving"]
    /\ proc' = ProcOf(boot')
    /\ UNCHANGED <<proxyVars, statusVars, codec, socks>>

\* ListenAndServe of the chosen proxy returns an error: the address cannot
\* be bound.
MainListenFails ==
    /\ boot.pc = "listen"
    /\ boot' = Fatal([boot EXCEPT !.started = Append(@, boot.mode)], "bind",
                     "listen tcp 127.0.0.1:8080: bind: address already in use")
    /\ proc' = ProcOf(boot')
    /\ UNCHANGED <<proxyVars, statusVars, codec, socks>>

\* No value is being serialised.
NoCodec == [stage |-> "idle", kind |-> "", val |-> <<>>, json |-> <<>>, out |-> <<>>]

\* ---------------------------------------------------------------- SOCKS5
\* A SOCKS5 client session before its CONNECT command. ask is what the
\* SOCKS5 server hands to conf.Dial, dialArgs what the overlay Dialer is
\* called with, res what the Dialer returned, ret what the callback returned
\* to the server and reply the server's reply to the client.
NoResult == [conn |-> "", err |-> ""]
NewSocks ==
    [pc |-> "idle", ask |-> <<>>, dialArgs |-> <<>>, res |-> NoResult,
     ret |-> NoResult, reply |-> ""]

\* The outcomes of s.Dial: a connection, or an error.
DialResults ==
    {[conn |-> "overlay-conn", err |-> ""], [conn |-> "", err |-> "dial tcp: i/o timeout"]}

\* main() serving in SOCKS5 mode after a startup without faults.
BootedSocks5 == [Booted("") EXCEPT !.mode = "socks5", !.started = <<"socks5">>]

\* The SOCKS5 server has read the CONNECT command of a client and is about
\* to call conf.Dial(ctx, "tcp", addr) for it. A session that was replied to
\* stands for the next client.
SocksRequest(s) ==
    /\ proc = "serving"
    /\ boot.mode = "socks5" /\ boot.ln = "bound"
    /\ socks[s].pc \in {"idle", "replied"}
    /\ \E h \in Hosts :
          socks' = [socks EXCEPT ![s] =
                      [NewSocks EXCEPT !.pc = "request",
                                       !.ask = <<"ctx" \o ToString(s), "tcp", h>>]]
    /\ UNCHANGED <<proc, proxyVars, statusVars, boot, codec>>

\* A callback that dials under its own background context.
MutSocksDialArgs(ask) == <<"background", ask[2], ask[3]>>

\* The callback passes its three parameters on: s.Dial(ctx, network, addr).
SocksDialArgs(ask) == ask

\* conf.Dial runs: it logs the address and calls s.Dial.
SocksDial(s) ==
    /\ proc = "serving"
    /\ socks[s].pc = "request"
    /\ socks' = [socks EXCEPT ![s].pc = "dialing",
                              ![s].dialArgs = SocksDialArgs(socks[s].ask)]
    /\ UNCHANGED <<proc, proxyVars, statusVars, boot, codec>>

\* "return s.Dial(...)": the callback returns what the Dialer returned.
SocksReturn(res) == res

\* s.Dial returns and so does the callback.
SocksDialReturns(s) ==
    /\ proc = "serving"
    /\ socks[s].pc = "dialing"
    /\ \E r \in DialResults :
          socks' = [socks EXCEPT ![s].pc = "returned", ![s].res = r,
                                  ![s].ret = SocksReturn(r)]
    /\ UNCHANGED <<proc, proxyVars, statusVars, boot, codec>>

\* The SOCKS5 server replies to the client of the session: a failure reply
\* when conf.Dial returned an error, success otherwise.
SocksReply(s) ==
    /\ proc = "serving"
    /\ socks[s].pc = "returned"
    /\ socks' = [socks EXCEPT ![s].pc = "replied",
                              ![s].reply = IF socks[s].ret.err # "" THEN "failure"
                                           ELSE "succeeded"]
    /\ UNCHANGED <<proc, proxyVars, statusVars, boot, codec>>

Init ==
    /\ proc = "serving"
    /\ pc = [s \in Slots |-> "idle"]
    /\ req = [s \in Slots |-> NoReq]
    /\ handled = [s \in Slots |-> <<>>]
    /\ w = [s \in Slots |-> NewWriter]
    /\ rt = [s \in Slots |-> NewRt]
    /\ conn = [s \in Slots |-> NewConn]
    /\ tun = [s \in Slots |-> NewTun]
    /\ faulted = FALSE
    /\ statusLn = "off"
    /\ overlay = [lc |-> TRUE, st |-> TRUE]
    /\ sresp = NoStatusResp
    /\ socks = [s \in PairSess |-> NewSocks]
    /\ boot = Booted("")
    /\ codec = NoCodec

\* ------------------------------------------------------------ front door
\* net/http accepts a request and starts its handler goroutine with a fresh
\* ResponseWriter. A session whose handler has returned, and whose copy
\* goroutine has ended, stands for the next request.
Accept(s) ==
    /\ proc = "serving"
    /\ boot.mode = "http" /\ boot.ln = "bound"
    /\ pc[s] \in {"idle", "done"}
    /\ tun[s].c2t # "running"
    /\ \E m \in Methods, hj \in HijackModes :
          /\ (m # MethodConnect => hj = "ok")
          /\ \E h \in Hosts :
                req' = [req EXCEPT ![s] = [method |-> m, host |-> h, hijack |-> hj,
                                           ctx |-> "live"]]
    /\ pc' = [pc EXCEPT ![s] = "serve"]
    /\ handled' = [handled EXCEPT ![s] = <<>>]
    /\ w' = [w EXCEPT ![s] = NewWriter]
    /\ rt' = [rt EXCEPT ![s] = NewRt]
    /\ conn' = [conn EXCEPT ![s] = NewConn]
    /\ tun' = [tun EXCEPT ![s] = NewTun]
    /\ UNCHANGED <<mainVars, statusVars, faulted, proc>>

\* A front door that sends every request to the tunnel handler.
MutRouteTunnelOnly(method) == "handleTunnel"

\* The routing decision of ServeHTTP.
Route(method) == IF method = MethodConnect THEN "handleTunnel" ELSE "handleHTTP"

ServeHTTP(s) ==
    /\ proc = "serving"
    /\ pc[s] = "serve"
    /\ LET h == Route(req[s].method) IN
          /\ handled' = [handled EXCEPT ![s] = Append(@, h)]
          /\ pc' = [pc EXCEPT ![s] = IF h = "handleTunnel" THEN "tunnel" ELSE "http"]
    /\ UNCHANGED <<mainVars, statusVars, faulted, proc, req, w, rt, conn, tun>>

\* ------------------------------------------------------------ handleHTTP
\* A forward proxy that tries the round trip a second time before giving up.
MutRoundTripRetry(s) ==
    /\ proc = "serving"
    /\ pc[s] = "http"
    /\ \E e \in TransportErrors :
          /\ rt' = [rt EXCEPT ![s].calls = @ + 2, ![s].result = "err", ![s].err = e]
          /\ w' = [w EXCEPT ![s] = HttpError(@, "Proxy Error: " \o e, StatusBadGateway)]
    /\ pc' = [pc EXCEPT ![s] = "done"]
    /\ faulted' = TRUE
    /\ UNCHANGED <<mainVars, statusVars, proc, req, handled, conn, tun>>

\* p.Transport.RoundTrip(r) returns an error: http.Error(..., 502), return.
HTTPRoundTripFail(s) ==
    /\ proc = "serving"
    /\ pc[s] = "http"
    /\ \E e \in TransportErrors :
          /\ rt' = [rt EXCEPT ![s].calls = @ + 1, ![s].result = "err", ![s].err = e]
          /\ w' = [w EXCEPT ![s] = HttpError(@, "Proxy Error: " \o e, StatusBadGateway)]
    /\ pc' = [pc EXCEPT ![s] = "done"]
    /\ faulted' = TRUE
    /\ UNCHANGED <<mainVars, statusVars, proc, req, handled, conn, tun>>

\* p.Transport.RoundTrip(r) returns a response; defer resp.Body.Close().
HTTPRoundTripOk(s) ==
    /\ proc = "serving"
    /\ pc[s] = "http"
    /\ \E r \in Responses :
          rt' = [rt EXCEPT ![s].calls = @ + 1, ![s].result = "ok", ![s].resp = r,
                           ![s].left = {k \in RawKeys : r.header[k] # <<>>}]
    /\ pc' = [pc EXCEPT ![s] = "http_headers"]
    /\ UNCHANGED <<mainVars, statusVars, faulted, proc, req, handled, w, conn, tun>>

\* One round of "for k, vv := range resp.Header": Go ranges over the map in
\* an unspecified order, and adds the values of one key in their order.
HTTPCopyHeader(s) ==
    /\ proc = "serving"
    /\ pc[s] = "http_headers"
    /\ \E k \in rt[s].left :
          /\ w' = [w EXCEPT ![s].header = AddAll(@, k, rt[s].resp.header[k])]
          /\ rt' = [rt EXCEPT ![s].left = @ \ {k}]
    /\ UNCHANGED <<mainVars, statusVars, faulted, proc, pc, req, handled, conn, tun>>

\* A relay that writes the status line without waiting for the header loop.
MutWriteHeaderEarly(s) ==
    /\ proc = "serving"
    /\ pc[s] = "http_headers"
    /\ w' = [w EXCEPT ![s] = WriteHeader(@, rt[s].resp.status)]
    /\ pc' = [pc EXCEPT ![s] = IF rt[s].left = {} THEN "http_body" ELSE "http_headers"]
    /\ UNCHANGED <<mainVars, statusVars, faulted, proc, req, handled, rt, conn, tun>>

\* w.WriteHeader(resp.StatusCode), once the header loop is over.
HTTPWriteHeader(s) ==
    /\ proc = "serving"
    /\ pc[s] = "http_headers"
    /\ rt[s].left = {}
    /\ w' = [w EXCEPT ![s] = WriteHeader(@, rt[s].resp.status)]
    /\ pc' = [pc EXCEPT ![s] = "http_body"]
    /\ UNCHANGED <<mainVars, statusVars, faulted, proc, req, handled, rt, conn, tun>>

\* io.Copy(w, resp.Body): one chunk of the body.
HTTPCopyBody(s) ==
    /\ proc = "serving"
    /\ pc[s] = "http_body"
    /\ rt[s].pos < Len(rt[s].resp.body)
    /\ w' = [w EXCEPT ![s] = WriterWrite(@, rt[s].resp.body[rt[s].pos + 1])]
    /\ rt' = [rt EXCEPT ![s].pos = @ + 1]
    /\ UNCHANGED <<mainVars, statusVars, faulted, proc, pc, req, handled, conn, tun>>

\* io.Copy reads EOF; handleHTTP returns and the deferred Body.Close runs.
HTTPReturn(s) ==
    /\ proc = "serving"
    /\ pc[s] = "http_body"
    /\ rt[s].pos = Len(rt[s].resp.body)
    /\ rt' = [rt EXCEPT ![s].bodyClosed = TRUE]
    /\ pc' = [pc EXCEPT ![s] = "done"]
    /\ UNCHANGED <<mainVars, statusVars, faulted, proc, req, handled, w, conn, tun>>

\* ---------------------------------------------------------- handleTunnel
\* net.Conn.Write on the hijacked client connection.
ClientWrite(c, bytes) == [c EXCEPT !.clientOut = Append(@, bytes)]

\* w.(http.Hijacker) fails: http.Error(w, ..., 500), return.
TunnelHijackUnsupported(s) ==
    /\ proc = "serving"
    /\ pc[s] = "tunnel"
    /\ req[s].hijack = "unsupported"
    /\ w' = [w EXCEPT ![s] = HttpError(@, "Hijacking not supported",
                                       StatusInternalServerError)]
    /\ pc' = [pc EXCEPT ![s] = "done"]
    /\ faulted' = TRUE
    /\ UNCHANGED <<mainVars, statusVars, proc, req, handled, rt, conn, tun>>

\* A handler that answers a failed Hijack with a raw 502 line.
MutHijackErrorWritesRaw(s) ==
    /\ proc = "serving"
    /\ pc[s] = "tunnel"
    /\ req[s].hijack = "error"
    /\ conn' = [conn EXCEPT ![s] = ClientWrite(@, Line502)]
    /\ pc' = [pc EXCEPT ![s] = "done"]
    /\ faulted' = TRUE
    /\ UNCHANGED <<mainVars, statusVars, proc, req, handled, w, rt, tun>>

\* hijacker.Hijack() returns an error: http.Error(w, err.Error(), 503), return.
TunnelHijackError(s) ==
    /\ proc = "serving"
    /\ pc[s] = "tunnel"
    /\ req[s].hijack = "error"
    /\ w' = [w EXCEPT ![s] = HttpError(@, "hijack failed", StatusServiceUnavailable)]
    /\ pc' = [pc EXCEPT ![s] = "done"]
    /\ faulted' = TRUE
    /\ UNCHANGED <<mainVars, statusVars, proc, req, handled, rt, conn, tun>>

\* How many bytes of the client's stream the server's bufio.Reader had read
\* off the connection, behind the request head, when the handler hijacks it.
BufferedCounts == 0..MaxBytes

\* hijacker.Hijack() succeeds: the handler owns clientConn; defer
\* clientConn.Close(). The bufio.ReadWriter that Hijack returns holds the
\* bytes the server had already read; the handler drops it ("_").
TunnelHijack(s) ==
    /\ proc = "serving"
    /\ pc[s] = "tunnel"
    /\ req[s].hijack = "ok"
    /\ conn' = [conn EXCEPT ![s].client = "open"]
    /\ \E b \in BufferedCounts : tun' = [tun EXCEPT ![s].buffered = b]
    /\ pc' = [pc EXCEPT ![s] = "dial"]
    /\ UNCHANGED <<mainVars, statusVars, faulted, proc, req, handled, w, rt>>

\* A handler that dials under the context of the inbound request.
MutTunnelDialRequestCtx(s) ==
    /\ proc = "serving"
    /\ pc[s] = "dial"
    /\ tun' = [tun EXCEPT ![s].dialCalls = @ + 1,
                          ![s].dialArgs = <<"request", "tcp", req[s].host>>]
    /\ pc' = [pc EXCEPT ![s] = "dialing"]
    /\ UNCHANGED <<mainVars, statusVars, faulted, proc, req, handled, w, rt, conn>>

\* A handler that dials a second time before it looks at the result.
MutTunnelDialRetry(s) ==
    /\ proc = "serving"
    /\ pc[s] = "dial"
    /\ tun' = [tun EXCEPT ![s].dialCalls = @ + 2,
                          ![s].dialArgs = <<"background", "tcp", req[s].host>>]
    /\ pc' = [pc EXCEPT ![s] = "dialing"]
    /\ UNCHANGED <<mainVars, statusVars, faulted, proc, req, handled, w, rt, conn>>

\* p.Dialer.Dial(context.Background(), "tcp", r.Host) is called.
TunnelDial(s) ==
    /\ proc = "serving"
    /\ pc[s] = "dial"
    /\ tun' = [tun EXCEPT ![s].dialCalls = @ + 1,
                          ![s].dialArgs = <<"background", "tcp", req[s].host>>]
    /\ pc' = [pc EXCEPT ![s] = "dialing"]
    /\ UNCHANGED <<mainVars, statusVars, faulted, proc, req, handled, w, rt, conn>>

\* The context of the inbound request is cancelled or expires while its
\* handler runs. A Dialer returns the context's error for a dial in flight
\* under that context; a dial under context.Background() is not reached.
RequestCancel(s) ==
    /\ proc = "serving"
    /\ pc[s] \notin {"idle", "done"}
    /\ req[s].ctx = "live"
    /\ req' = [req EXCEPT ![s].ctx = "cancelled"]
    /\ IF pc[s] = "dialing" /\ tun[s].dialArgs[1] = "request"
       THEN /\ tun' = [tun EXCEPT ![s].dial = "failed"]
            /\ pc' = [pc EXCEPT ![s] = "dial_failed"]
            /\ faulted' = TRUE
       ELSE UNCHANGED <<tun, pc, faulted>>
    /\ UNCHANGED <<mainVars, statusVars, proc, handled, w, rt, conn>>

\* The Dialer returns an error.
DialFails(s) ==
    /\ proc = "serving"
    /\ pc[s] = "dialing"
    /\ tun' = [tun EXCEPT ![s].dial = "failed"]
    /\ pc' = [pc EXCEPT ![s] = "dial_failed"]
    /\ faulted' = TRUE
    /\ UNCHANGED <<mainVars, statusVars, proc, req, handled, w, rt, conn>>

\* The Dialer returns targetConn; defer targetConn.Close().
DialSucceeds(s) ==
    /\ proc = "serving"
    /\ pc[s] = "dialing"
    /\ tun' = [tun EXCEPT ![s].dial = "ok"]
    /\ conn' = [conn EXCEPT ![s].target = "open"]
    /\ pc' = [pc EXCEPT ![s] = "established"]
    /\ UNCHANGED <<mainVars, statusVars, faulted, proc, req, handled, w, rt>>

\* A dial-failure branch without its return: it falls through to the tunnel.
MutWrite502NoReturn(s) ==
    /\ proc = "serving"
    /\ pc[s] = "dial_failed"
    /\ conn' = [conn EXCEPT ![s] = ClientWrite(@, Line502)]
    /\ pc' = [pc EXCEPT ![s] = "established"]
    /\ UNCHANGED <<mainVars, statusVars, faulted, proc, req, handled, w, rt, tun>>

\* err != nil: log the failure, write the 502 line to the raw connection.
TunnelWrite502(s) ==
    /\ proc = "serving"
    /\ pc[s] = "dial_failed"
    /\ conn' = [conn EXCEPT ![s] = ClientWrite(@, Line502)]
    /\ pc' = [pc EXCEPT ![s] = "return"]
    /\ UNCHANGED <<mainVars, statusVars, faulted, proc, req, handled, w, rt, tun>>

\* A handler that starts piping without announcing the tunnel.
MutWrite200Skipped(s) ==
    /\ proc = "serving"
    /\ pc[s] = "established"
    /\ pc' = [pc EXCEPT ![s] = "spawn"]
    /\ UNCHANGED <<mainVars, statusVars, faulted, proc, req, handled, w, rt, conn, tun>>

\* Tell the client the tunnel is established.
TunnelWrite200(s) ==
    /\ proc = "serving"
    /\ pc[s] = "established"
    /\ conn' = [conn EXCEPT ![s] = ClientWrite(@, Line200)]
    /\ pc' = [pc EXCEPT ![s] = "spawn"]
    /\ UNCHANGED <<mainVars, statusVars, faulted, proc, req, handled, w, rt, tun>>

\* go io.Copy(targetConn, clientConn); the handler itself enters
\* io.Copy(clientConn, targetConn).
TunnelSpawn(s) ==
    /\ proc = "serving"
    /\ pc[s] = "spawn"
    /\ tun' = [tun EXCEPT ![s].c2t = "running", ![s].t2c = "running"]
    /\ pc' = [pc EXCEPT ![s] = "piping"]
    /\ UNCHANGED <<mainVars, statusVars, faulted, proc, req, handled, w, rt, conn>>

\* io.Copy(clientConn, targetConn), in the handler: the next byte of the
\* target is read and written to the client.
CopyT2C(s) ==
    /\ proc = "serving"
    /\ pc[s] = "piping"
    /\ tun[s].t2c = "running"
    /\ tun[s].tPos < MaxBytes
    /\ conn' = [conn EXCEPT ![s].clientOut = Append(@, TargetStream[tun[s].tPos + 1])]
    /\ tun' = [tun EXCEPT ![s].tPos = @ + 1]
    /\ UNCHANGED <<mainVars, statusVars, faulted, proc, pc, req, handled, w, rt>>

\* A handler that, when its own copy has ended, waits for the copy goroutine
\* before it returns.
MutT2CEndsWaitsForClient(s) ==
    /\ proc = "serving"
    /\ pc[s] = "piping"
    /\ tun[s].t2c = "running"
    /\ tun' = [tun EXCEPT ![s].t2c = "done"]
    /\ pc' = [pc EXCEPT ![s] = IF tun[s].c2t = "done" THEN "return" ELSE "piping"]
    /\ UNCHANGED <<mainVars, statusVars, faulted, proc, req, handled, w, rt, conn>>

\* The handler's copy ends: the target reached end-of-stream, a read of it
\* failed, or a write to the client failed. io.Copy returns and so does the
\* handler.
CopyT2CEnds(s) ==
    /\ proc = "serving"
    /\ pc[s] = "piping"
    /\ tun[s].t2c = "running"
    /\ tun' = [tun EXCEPT ![s].t2c = "done"]
    /\ pc' = [pc EXCEPT ![s] = "return"]
    /\ UNCHANGED <<mainVars, statusVars, faulted, proc, req, handled, w, rt, conn>>

\* io.Copy(targetConn, clientConn), in the goroutine: the next byte is read
\* from the connection itself, behind what the server had buffered, and
\* written to the target. Both connections must still be open for the read
\* and the write to succeed.
CopyC2T(s) ==
    /\ proc = "serving"
    /\ tun[s].c2t = "running"
    /\ conn[s].client = "open"
    /\ conn[s].target = "open"
    /\ tun[s].buffered + tun[s].cPos < MaxBytes
    /\ conn' = [conn EXCEPT ![s].targetOut =
                   Append(@, ClientStream[tun[s].buffered + tun[s].cPos + 1])]
    /\ tun' = [tun EXCEPT ![s].cPos = @ + 1]
    /\ UNCHANGED <<mainVars, statusVars, faulted, proc, pc, req, handled, w, rt>>

\* A copy goroutine that closes both connections when its direction ends.
MutC2TEndsCloses(s) ==
    /\ proc = "serving"
    /\ tun[s].c2t = "running"
    /\ tun' = [tun EXCEPT ![s].c2t = "done"]
    /\ conn' = [conn EXCEPT ![s].client = "closed", ![s].target = "closed"]
    /\ UNCHANGED <<mainVars, statusVars, faulted, proc, pc, req, handled, w, rt>>

\* The goroutine's copy ends: the client reached end-of-stream, a read or a
\* write failed, or the handler has closed the connections under it.
CopyC2TEnds(s) ==
    /\ proc = "serving"
    /\ tun[s].c2t = "running"
    /\ tun' = [tun EXCEPT ![s].c2t = "done"]
    /\ UNCHANGED <<mainVars, statusVars, faulted, proc, pc, req, handled, w, rt, conn>>

\* A handler that forgets to defer targetConn.Close().
MutRunDefersClientOnly(c) == [c EXCEPT !.client = IF @ = "open" THEN "closed" ELSE @]

\* The deferred calls of handleTunnel, run when it returns: targetConn.Close()
\* if the dial had succeeded, then clientConn.Close().
RunDefers(c) ==
    [c EXCEPT !.target = IF @ = "open" THEN "closed" ELSE @,
              !.client = IF @ = "open" THEN "closed" ELSE @]

\* A handler whose deferred closes reach every connection the proxy holds, as
\* if the connections were kept in a field shared by the handlers.
MutReturnClosesAll(s) ==
    /\ proc = "serving"
    /\ pc[s] = "return"
    /\ conn' = [u \in Slots |-> RunDefers(conn[u])]
    /\ pc' = [pc EXCEPT ![s] = "done"]
    /\ UNCHANGED <<mainVars, statusVars, faulted, proc, req, handled, w, rt, tun>>

\* handleTunnel returns: its deferred closes run.
TunnelReturn(s) ==
    /\ proc = "serving"
    /\ pc[s] = "return"
    /\ conn' = [conn EXCEPT ![s] = RunDefers(@)]
    /\ pc' = [pc EXCEPT ![s] = "done"]
    /\ UNCHANGED <<mainVars, statusVars, faulted, proc, req, handled, w, rt, tun>>

\* ------------------------------------------------------------ status API
\* netip.Addr values of the model and netip.Addr.String, their canonical text.
Addrs == {"v4a", "v4b", "v6a"}
AddrString(a) ==
    CASE a = "v4a" -> "100.64.0.1"
      [] a = "v4b" -> "100.64.0.10"
      [] OTHER     -> "fd7a:115c:a1e0::1"

\* time.Time values of the model (0 is the zero time), Time.IsZero and
\* Time.Format(time.RFC3339).
Times == {0, 1, 2}
IsZero(t) == t = 0
FormatRFC3339(t) ==
    CASE t = 1 -> "2026-01-19T20:29:55Z"
      [] t = 2 -> "2026-01-19T20:30:00Z"
      [] OTHER -> "0001-01-01T00:00:00Z"

\* A Go slice: nil, or a (possibly empty) sequence of elements.
NilSlice == [isNil |-> TRUE, elems |-> <<>>]
MakeSlice(seq) == [isNil |-> FALSE, elems |-> seq]
\* append(s, x): the result is never nil.
SliceAppend(s, x) == [isNil |-> FALSE, elems |-> Append(s.elems, x)]

\* The peers the overlay node can report (ipnstate.PeerStatus), by node key.
PeerKeys == {"k1", "k2", "k3", "k4"}
PeerOf(k) ==
    CASE k = "k1" ->
           [DNSName |-> "peer1.tailnet.ts.net", HostName |-> "peer1",
            TailscaleIPs |-> <<"v4a", "v6a">>, Online |-> TRUE,
            CurAddr |-> "192.168.1.100:41641", Relay |-> "",
            RxBytes |-> 12345, TxBytes |-> 67890, LastSeen |-> 2, LastHandshake |-> 1]
      [] k = "k2" ->
           [DNSName |-> "peer2.tailnet.ts.net", HostName |-> "peer2",
            TailscaleIPs |-> <<"v4b">>, Online |-> TRUE,
            CurAddr |-> "", Relay |-> "nyc",
            RxBytes |-> 10, TxBytes |-> 0, LastSeen |-> 0, LastHandshake |-> 1]
      [] k = "k3" ->
           [DNSName |-> "peer3.tailnet.ts.net", HostName |-> "peer3",
            TailscaleIPs |-> <<>>, Online |-> TRUE,
            CurAddr |-> "10.0.0.1:41641", Relay |-> "fra",
            RxBytes |-> 0, TxBytes |-> 7, LastSeen |-> 1, LastHandshake |-> 0]
      [] OTHER ->
           [DNSName |-> "peer4.tailnet.ts.net", HostName |-> "peer4",
            TailscaleIPs |-> <<"v4a">>, Online |-> FALSE,
            CurAddr |-> "", Relay |-> "",
            RxBytes |-> 0, TxBytes |-> 0, LastSeen |-> 0, LastHandshake |-> 0]

SelfPeer ==
    [DNSName |-> "my-proxy.tailnet.ts.net", HostName |-> "my-proxy",
     TailscaleIPs |-> <<"v4b", "v6a">>, Online |-> TRUE]

BackendStates == {"Running", "NeedsLogin"}

\* ipnstate.Status as the handler reads it: BackendState, Self (nil or a
\* peer) and Peer, a map from node key to peer.
Snapshots ==
    { [BackendState |-> b, hasSelf |-> hs, Peer |-> ks] :
        b \in BackendStates, hs \in BOOLEAN,
        ks \in {K \in SUBSET PeerKeys : Cardinality(K) <= MaxPeers} }

\* The orders in which "range status.Peer" can visit the keys of the map.
RangeOrders(K) ==
    { o \in [1..Cardinality(K) -> K] : \A i, j \in 1..Cardinality(K) : o[i] = o[j] => i = j }

\* ips[i] = ip.String() over a slice made with make([]string, len(...)).
IPStrings(ips) == MakeSlice([i \in 1..Len(ips) |-> AddrString(ips[i])])

\* The zero value of PeerStatus.
ZeroPeerStatus ==
    [Name |-> "", HostName |-> "", TailscaleIPs |-> NilSlice, Online |-> FALSE,
     Direct |-> FALSE, RelayedVia |-> "", CurAddr |-> "", RxBytes |-> 0, TxBytes |-> 0,
     LastSeen |-> "", LastHandshake |-> ""]

\* A self record that carries the short host name as its name.
MutProjectSelfHostOnly(self) ==
    [ZeroPeerStatus EXCEPT !.Name = self.HostName, !.HostName = self.HostName,
                           !.TailscaleIPs = IPStrings(self.TailscaleIPs),
                           !.Online = self.Online]

\* "Self info": the fields set when status.Self != nil.
ProjectSelf(self) ==
    [ZeroPeerStatus EXCEPT !.Name = self.DNSName, !.HostName = self.HostName,
                           !.TailscaleIPs = IPStrings(self.TailscaleIPs),
                           !.Online = self.Online]

\* A classification that looks at the current address alone.
MutIsDirectAddrOnly(curAddr, relay) == curAddr # ""

\* isDirect := peer.CurAddr != "" && peer.Relay == ""
IsDirect(curAddr, relay) == curAddr # "" /\ relay = ""

\* relayedVia := ""; if peer.Relay != "" { relayedVia = peer.Relay }
RelayedVia(relay) == IF relay # "" THEN relay ELSE ""

\* A rendering without the IsZero test.
MutTimeStringAlways(t) == FormatRFC3339(t)

\* lastSeen := ""; if !t.IsZero() { lastSeen = t.Format(time.RFC3339) }
TimeString(t) == IF ~IsZero(t) THEN FormatRFC3339(t) ELSE ""

\* The body of the "Peer info" loop: the PeerStatus appended for one peer.
ProjectPeer(peer) ==
    [Name |-> peer.DNSName, HostName |-> peer.HostName,
     TailscaleIPs |-> IPStrings(peer.TailscaleIPs), Online |-> peer.Online,
     Direct |-> IsDirect(peer.CurAddr, peer.Relay),
     RelayedVia |-> RelayedVia(peer.Relay), CurAddr |-> peer.CurAddr,
     RxBytes |-> peer.RxBytes, TxBytes |-> peer.TxBytes,
     LastSeen |-> TimeString(peer.LastSeen),
     LastHandshake |-> TimeString(peer.LastHandshake)]

\* A loop that assigns the record of the current peer instead of appending it.
MutProjectPeersLastOnly(acc, o) ==
    IF o = <<>> THEN acc ELSE SliceAppend(acc, ProjectPeer(PeerOf(o[Len(o)])))

\* The "Peer info" loop over the keys in the order o: response.Peers starts
\* nil and grows by append.
RECURSIVE ProjectPeers(_, _)
ProjectPeers(acc, o) ==
    IF o = <<>> THEN acc
    ELSE ProjectPeers(SliceAppend(acc, ProjectPeer(PeerOf(Head(o)))), Tail(o))

\* The StatusResponse built from a snapshot whose map is ranged in order o.
BuildResponse(snap, o) ==
    [Self |-> IF snap.hasSelf THEN ProjectSelf(SelfPeer) ELSE ZeroPeerStatus,
     Peers |-> ProjectPeers(NilSlice, o),
     BackendState |-> snap.BackendState]

\* An encoder that writes an empty slice the way it writes a nil one.
MutEncodeSliceEmptyNull(s) ==
    IF s.elems = <<>> THEN [t |-> "null", v |-> <<>>] ELSE [t |-> "array", v |-> s.elems]

\* encoding/json on a []T: null for a nil slice, an array otherwise.
EncodeSlice(s) == IF s.isNil THEN [t |-> "null", v |-> <<>>] ELSE [t |-> "array", v |-> s.elems]

\* encoding/json on a PeerStatus, by its field tags.
EncodePeer(p) ==
    [name |-> p.Name, hostname |-> p.HostName,
     tailscale_ips |-> EncodeSlice(p.TailscaleIPs),
     online |-> p.Online, direct |-> p.Direct, relayed_via |-> p.RelayedVia,
     current_address |-> p.CurAddr, rx_bytes |-> p.RxBytes, tx_bytes |-> p.TxBytes,
     last_seen |-> p.LastSeen, last_handshake |-> p.LastHandshake]

\* encoding/json on a StatusResponse, by its field tags.
EncodeResponse(r) ==
    [self |-> EncodePeer(r.Self),
     peers |-> EncodeSlice([isNil |-> r.Peers.isNil,
                            elems |-> [i \in 1..Len(r.Peers.elems) |->
                                          EncodePeer(r.Peers.elems[i])]]),
     backend_state |-> r.BackendState]

\* json.Unmarshal into a []T of a fresh value: null leaves the slice nil, an
\* array makes a slice of its length, non-nil even when the array is empty.
DecodeSlice(j) == IF j.t = "null" THEN NilSlice ELSE MakeSlice(j.v)

\* json.Unmarshal into a PeerStatus, by its field tags.
DecodePeer(j) ==
    [Name |-> j.name, HostName |-> j.hostname,
     TailscaleIPs |-> DecodeSlice(j.tailscale_ips),
     Online |-> j.online, Direct |-> j.direct, RelayedVia |-> j.relayed_via,
     CurAddr |-> j.current_address, RxBytes |-> j.rx_bytes, TxBytes |-> j.tx_bytes,
     LastSeen |-> j.last_seen, LastHandshake |-> j.last_handshake]

\* json.Unmarshal into a StatusResponse, by its field tags.
DecodeResponse(j) ==
    [Self |-> DecodePeer(j.self),
     Peers |-> DecodeSlice([t |-> j.peers.t,
                            v |-> [i \in 1..Len(j.peers.v) |-> DecodePeer(j.peers.v[i])]]),
     BackendState |-> j.backend_state]

\* The PeerStatus values that are serialised: every kind of address list,
\* direct and relayed peers, set and unset timestamps.
TestIPLists ==
    {NilSlice, MakeSlice(<<>>), MakeSlice(<<"100.64.0.1", "fd7a:115c:a1e0::1">>),
     MakeSlice(<<"fd7a:115c:a1e0::1", "100.64.0.1">>)}
TestPeers ==
    { [Name |-> "peer1.tailnet.ts.net", HostName |-> "peer1", TailscaleIPs |-> ips,
       Online |-> TRUE, Direct |-> d, RelayedVia |-> IF d THEN "" ELSE "nyc",
       CurAddr |-> IF d THEN "192.168.1.100:41641" ELSE "",
       RxBytes |-> 12345, TxBytes |-> 67890,
       LastSeen |-> ls, LastHandshake |-> "2026-01-19T20:29:55Z"] :
        ips \in TestIPLists, d \in BOOLEAN, ls \in {"", "2026-01-19T20:30:00Z"} }

\* The peers a serialised StatusResponse is built from.
TestResponsePeers ==
    { q \in TestPeers : q.TailscaleIPs = MakeSlice(<<"100.64.0.1", "fd7a:115c:a1e0::1">>)
                          /\ (q.Direct \/ q.LastSeen = "") }

\* The sequences over S of length at most n.
SeqsUpTo(S, n) == UNION { [1..k -> S] : k \in 0..n }

\* The StatusResponse values that are serialised: a zero or a set self, a
\* nil, an empty or a filled peers slice.
TestResponses ==
    { [Self |-> s, Peers |-> ps, BackendState |-> "Running"] :
        s \in {ZeroPeerStatus, ProjectSelf(SelfPeer)},
        ps \in {NilSlice} \cup { MakeSlice(q) : q \in SeqsUpTo(TestResponsePeers, MaxPeers) } }

\* json.Marshal(original).
Marshal ==
    /\ codec.stage = "value"
    /\ codec' = [codec EXCEPT
                    !.stage = "encoded",
                    !.json = <<IF codec.kind = "peer" THEN EncodePeer(codec.val[1])
                               ELSE EncodeResponse(codec.val[1])>>]
    /\ UNCHANGED <<proc, proxyVars, statusVars, boot, socks>>

\* json.Unmarshal(data, &decoded) into a fresh value.
Unmarshal ==
    /\ codec.stage = "encoded"
    /\ codec' = [codec EXCEPT
                    !.stage = "decoded",
                    !.out = <<IF codec.kind = "peer" THEN DecodePeer(codec.json[1])
                              ELSE DecodeResponse(codec.json[1])>>]
    /\ UNCHANGED <<proc, proxyVars, statusVars, boot, socks>>

\* The chunk that stands in w.body for the encoded document, kept in sresp.json.
JsonChunk == "<json>"

\* The text of the error the overlay node returns when it fails.
OverlayError == "tsnet: not running"

\* The status server binds its port: http.ListenAndServe serves, or returns
\* an error, which startStatusServer only logs.
StatusListen ==
    /\ proc # "exited"
    /\ statusLn = "starting"
    /\ \E ok \in BOOLEAN : statusLn' = IF ok THEN "up" ELSE "failed"
    /\ UNCHANGED <<mainVars, proc, proxyVars, overlay, sresp>>

\* The overlay node changes health on its own.
OverlayChanges ==
    /\ \E lc \in BOOLEAN, st \in BOOLEAN :
          /\ [lc |-> lc, st |-> st] # overlay
          /\ overlay' = [lc |-> lc, st |-> st]
    /\ UNCHANGED <<mainVars, proc, proxyVars, statusLn, sresp>>

\* A health check that asks the overlay node before it answers.
MutHealthAsksOverlay ==
    IF overlay.lc /\ overlay.st
    THEN [path |-> "/health",
          w |-> WriterWrite(WriteHeader(NewWriter, StatusOK), "OK"),
          json |-> <<>>, calls |-> 2, seen |-> overlay, snap |-> NoSnapshot]
    ELSE [path |-> "/health",
          w |-> HttpError(NewWriter, "overlay down", StatusServiceUnavailable),
          json |-> <<>>, calls |-> 2, seen |-> overlay, snap |-> NoSnapshot]

\* GET /health: w.WriteHeader(200); w.Write("OK").
HealthResponse ==
    [path |-> "/health",
     w |-> WriterWrite(WriteHeader(NewWriter, StatusOK), "OK"),
     json |-> <<>>, calls |-> 0, seen |-> overlay, snap |-> NoSnapshot]

HandleHealth ==
    /\ proc = "serving"
    /\ statusLn = "up"
    /\ sresp' = HealthResponse
    /\ UNCHANGED <<mainVars, proc, proxyVars, statusLn, overlay>>

\* GET /status, s.LocalClient() fails: http.Error(..., 500), return.
LocalClientFailed ==
    [path |-> "/status",
     w |-> HttpError(NewWriter, "failed to get local client: " \o OverlayError,
                     StatusInternalServerError),
     json |-> <<>>, calls |-> 1, seen |-> overlay, snap |-> NoSnapshot]

\* A status handler that ignores the error of lc.Status and encodes a
\* zero-valued document.
MutStatusFailedIgnored ==
    [path |-> "/status",
     w |-> WriterWrite([NewWriter EXCEPT
                          !.header = HeaderSet(@, "Content-Type", "application/json")],
                       "<json>"),
     json |-> <<[self |-> "", peers |-> "", backend_state |-> ""]>>, calls |-> 2,
     seen |-> overlay, snap |-> NoSnapshot]

\* GET /status, lc.Status(r.Context()) fails: http.Error(..., 500), return.
StatusFailed ==
    [path |-> "/status",
     w |-> HttpError(NewWriter, "failed to get status: " \o OverlayError,
                     StatusInternalServerError),
     json |-> <<>>, calls |-> 2, seen |-> overlay, snap |-> NoSnapshot]

\* GET /status, both calls succeed: the Content-Type is set and the response
\* is encoded, which writes the status 200 implicitly.
StatusDocument(snap, o) ==
    [path |-> "/status",
     w |-> WriterWrite([NewWriter EXCEPT
                          !.header = HeaderSet(@, "Content-Type", "application/json")],
                       JsonChunk),
     json |-> <<EncodeResponse(BuildResponse(snap, o))>>, calls |-> 2,
     seen |-> overlay, snap |-> snap]

\* The /status handler, over snapshots of at most n peers.
HandleStatus(n) ==
    /\ proc = "serving"
    /\ statusLn = "up"
    /\ IF ~overlay.lc THEN sresp' = LocalClientFailed
       ELSE IF ~overlay.st THEN sresp' = StatusFailed
       ELSE \E snap \in Snapshots :
               /\ Cardinality(snap.Peer) <= n
               /\ \E o \in RangeOrders(snap.Peer) : sresp' = StatusDocument(snap, o)
    /\ UNCHANGED <<mainVars, proc, proxyVars, statusLn, overlay>>

\* One step of the handler goroutine (or copy goroutine) of session s.
ProxyStep(s) ==
    \/ Accept(s)
    \/ ServeHTTP(s)
    \/ HTTPRoundTripFail(s)
    \/ HTTPRoundTripOk(s)
    \/ HTTPCopyHeader(s)
    \/ HTTPWriteHeader(s)
    \/ HTTPCopyBody(s)
    \/ HTTPReturn(s)
    \/ TunnelHijackUnsupported(s)
    \/ TunnelHijackError(s)
    \/ TunnelHijack(s)
    \/ TunnelDial(s)
    \/ DialFails(s)
    \/ DialSucceeds(s)
    \/ TunnelWrite502(s)
    \/ TunnelWrite200(s)
    \/ TunnelSpawn(s)
    \/ CopyT2C(s)
    \/ CopyT2CEnds(s)
    \/ CopyC2T(s)
    \/ CopyC2TEnds(s)
    \/ TunnelReturn(s)

\* The proxy in HTTP mode, without a status listener.
Next == \E s \in Sess : ProxyStep(s)

Spec == Init /\ [][Next]_vars

\* The status API alone, over every snapshot of up to MaxPeers peers.
InitStatus ==
    /\ proc = "serving"
    /\ pc = [s \in Slots |-> "idle"]
    /\ req = [s \in Slots |-> NoReq]
    /\ handled = [s \in Slots |-> <<>>]
    /\ w = [s \in Slots |-> NewWriter]
    /\ rt = [s \in Slots |-> NewRt]
    /\ conn = [s \in Slots |-> NewConn]
    /\ tun = [s \in Slots |-> NewTun]
    /\ faulted = FALSE
    /\ statusLn = "starting"
    /\ overlay \in [lc : BOOLEAN, st : BOOLEAN]
    /\ sresp = NoStatusResp
    /\ socks = [s \in PairSess |-> NewSocks]
    /\ boot = Booted("9090")
    /\ codec = NoCodec

NextStatus ==
    \/ StatusListen
    \/ OverlayChanges
    \/ HandleHealth
    \/ HandleStatus(MaxPeers)

SpecStatus == InitStatus /\ [][NextStatus]_vars

\* The status API next to a proxy session: the two listeners of one process.
NextGateway ==
    \/ StatusListen
    \/ OverlayChanges
    \/ HandleHealth
    \/ HandleStatus(0)
    \/ ProxyStep(1)

SpecGateway == InitStatus /\ [][NextGateway]_vars

\* The JSON round trip of the status types, over the test values.
InitJSON ==
    /\ proc = "serving"
    /\ pc = [s \in Slots |-> "idle"]
    /\ req = [s \in Slots |-> NoReq]
    /\ handled = [s \in Slots |-> <<>>]
    /\ w = [s \in Slots |-> NewWriter]
    /\ rt = [s \in Slots |-> NewRt]
    /\ conn = [s \in Slots |-> NewConn]
    /\ tun = [s \in Slots |-> NewTun]
    /\ faulted = FALSE
    /\ statusLn = "off"
    /\ overlay = [lc |-> TRUE, st |-> TRUE]
    /\ sresp = NoStatusResp
    /\ socks = [s \in PairSess |-> NewSocks]
    /\ boot = Booted("")
    /\ \/ \E v \in TestPeers :
             codec = [NoCodec EXCEPT !.stage = "value", !.kind = "peer", !.val = <<v>>]
       \/ \E v \in TestResponses :
             codec = [NoCodec EXCEPT !.stage = "value", !.kind = "response", !.val = <<v>>]

NextJSON ==
    \/ Marshal
    \/ Unmarshal

SpecJSON == InitJSON /\ [][NextJSON]_vars

\* The copy goroutine's Read or Write on a connection the handler has closed
\* returns an error, which ends its io.Copy.
CopyC2TForcedEnd(s) ==
    /\ conn[s].client = "closed"
    /\ CopyC2TEnds(s)

\* One session under the scheduling Go guarantees: a handler whose io.Copy
\* has returned goes on to return, and a copy blocked on a closed connection
\* ends. Nothing is assumed of the client, the target or the Dialer.
NextTunnelFair == ProxyStep(1)

SpecTunnelFair ==
    /\ Init
    /\ [][NextTunnelFair]_vars
    /\ WF_vars(TunnelReturn(1))
    /\ WF_vars(CopyC2TForcedEnd(1))

\* One request whose context may be cancelled at any point of its handler.
NextDial ==
    \/ ProxyStep(1)
    \/ RequestCancel(1)

SpecDial == Init /\ [][NextDial]_vars

\* Two concurrent client sessions of the SOCKS5 server.
InitSocks ==
    /\ proc = "serving"
    /\ pc = [s \in Slots |-> "idle"]
    /\ req = [s \in Slots |-> NoReq]
    /\ handled = [s \in Slots |-> <<>>]
    /\ w = [s \in Slots |-> NewWriter]
    /\ rt = [s \in Slots |-> NewRt]
    /\ conn = [s \in Slots |-> NewConn]
    /\ tun = [s \in Slots |-> NewTun]
    /\ faulted = FALSE
    /\ statusLn = "off"
    /\ overlay = [lc |-> TRUE, st |-> TRUE]
    /\ sresp = NoStatusResp
    /\ socks = [s \in PairSess |-> NewSocks]
    /\ boot = BootedSocks5
    /\ codec = NoCodec

SocksStep(s) ==
    \/ SocksRequest(s)
    \/ SocksDial(s)
    \/ SocksDialReturns(s)
    \/ SocksReply(s)

NextSocks == \E s \in PairSess : SocksStep(s)

SpecSocks == InitSocks /\ [][NextSocks]_vars

\* Two concurrent requests, each in its own handler goroutine.
NextPair == \E s \in PairSess : ProxyStep(s)

SpecPair == Init /\ [][NextPair]_vars

\* The process from the first statement of main(): startup under every
\* configuration and every startup fault, then the status listener and one
\* proxy session.
InitMain ==
    /\ proc = "starting"
    /\ pc = [s \in Slots |-> "idle"]
    /\ req = [s \in Slots |-> NoReq]
    /\ handled = [s \in Slots |-> <<>>]
    /\ w = [s \in Slots |-> NewWriter]
    /\ rt = [s \in Slots |-> NewRt]
    /\ conn = [s \in Slots |-> NewConn]
    /\ tun = [s \in Slots |-> NewTun]
    /\ faulted = FALSE
    /\ statusLn = "off"
    /\ overlay = [lc |-> TRUE, st |-> TRUE]
    /\ sresp = NoStatusResp
    /\ socks = [s \in PairSess |-> NewSocks]
    /\ \E m \in Modes, p \in StatusPorts, d \in StateDirs : boot = NewBoot(m, p, d)
    /\ codec = NoCodec

NextMain ==
    \/ MainStarting
    \/ MainStateDir
    \/ MainGetwdFails
    \/ MainMkdirFails
    \/ MainConnecting
    \/ MainUp
    \/ MainUpFails
    \/ MainStatus
    \/ MainHTTP
    \/ MainSocks5
    \/ MainSocks5NewFails
    \/ MainUnknownMode
    \/ MainListen
    \/ MainListenFails
    \/ StatusListen
    \/ ProxyStep(1)

SpecMain == InitMain /\ [][NextMain]_vars

\* ================================================================ claims
TunnelPcs == {"tunnel", "dial", "dialing", "dial_failed", "established", "spawn",
              "piping", "return"}
HTTPPcs == {"http", "http_headers", "http_body"}

\* a is a prefix of b.
IsPrefix(a, b) == Len(a) <= Len(b) /\ \A i \in 1..Len(a) : a[i] = b[i]

\* a is a subsequence of b: the elements of a occur in b, in the order of a.
RECURSIVE IsSubseq(_, _)
IsSubseq(a, b) ==
    IF a = <<>> THEN TRUE
    ELSE IF b = <<>> THEN FALSE
    ELSE IF Head(a) = Head(b) THEN IsSubseq(Tail(a), Tail(b))
    ELSE IsSubseq(a, Tail(b))

\* C1: when the dial of a CONNECT request succeeded, whatever has been written
\* to the client connection starts with the literal 200 line, the line is
\* written before the copy loops start, and everything after it is a byte of
\* the target.
C1_EstablishedLineFirst ==
    \A s \in Sess :
       tun[s].dial = "ok" =>
          LET out == conn[s].clientOut IN
          /\ out # <<>> => out[1] = Line200
          /\ pc[s] # "established" => out # <<>>
          /\ \A i \in 2..Len(out) : \E j \in 1..MaxBytes : out[i] = TargetStream[j]
          /\ tun[s].tPos = Len(out) - (IF out = <<>> THEN 0 ELSE 1)

C1_Witness ==
    \E s \in Sess :
       /\ tun[s].dial = "ok"
       /\ Len(conn[s].clientOut) >= 2
       /\ conn[s].clientOut[1] = Line200
       /\ conn[s].clientOut[2] = TargetStream[1]

\* C2: when the dial of a CONNECT request failed, the client connection
\* carries the literal 502 line and nothing else, it is closed after the line
\* was written, nothing is written to a target, no copy loop runs, nothing
\* goes through the HTTP ResponseWriter, and the process keeps serving.
C2_DialFailed502 ==
    \A s \in Sess :
       tun[s].dial = "failed" =>
          /\ conn[s].clientOut \in {<<>>, <<Line502>>}
          /\ pc[s] \in {"dial_failed", "return", "done"}
          /\ pc[s] # "dial_failed" => conn[s].clientOut = <<Line502>>
          /\ conn[s].client = "closed" <=> pc[s] = "done"
          /\ conn[s].target = "none"
          /\ conn[s].targetOut = <<>>
          /\ tun[s].c2t = "idle" /\ tun[s].t2c = "idle"
          /\ w[s] = NewWriter
          /\ proc = "serving"

C2_Witness ==
    \E s \in Sess :
       /\ tun[s].dial = "failed"
       /\ pc[s] = "done"
       /\ conn[s].clientOut = <<Line502>>
       /\ conn[s].client = "closed"

\* C3: every request that ServeHTTP has routed was handed to exactly one
\* handler: handleTunnel if and only if its method is CONNECT, handleHTTP
\* otherwise; and only that handler has acted on it.
C3_OneRoute ==
    \A s \in Sess :
       /\ pc[s] \in {"idle", "serve"} => handled[s] = <<>>
       /\ pc[s] \notin {"idle", "serve"} =>
             /\ Len(handled[s]) = 1
             /\ req[s].method = "CONNECT" => handled[s][1] = "handleTunnel"
             /\ req[s].method # "CONNECT" => handled[s][1] = "handleHTTP"
       /\ pc[s] \in TunnelPcs => req[s].method = "CONNECT"
       /\ pc[s] \in HTTPPcs => req[s].method # "CONNECT"
       /\ req[s].method # "CONNECT" => conn[s] = NewConn /\ tun[s] = NewTun
       /\ req[s].method = "CONNECT" => rt[s] = NewRt

C3_Witness ==
    \E s \in Sess :
       /\ req[s].method = "POST"
       /\ pc[s] = "done"
       /\ handled[s] = <<"handleHTTP">>
       /\ rt[s].calls = 1

\* C4: when RoundTrip returned a response (S, H, B), the status written is S,
\* the header sent with it holds, for every key of H, the values of H in their
\* order, the body written is a prefix of B at every moment and B itself once
\* the handler has returned.
C4_RelayVerbatim ==
    \A s \in Sess :
       rt[s].result = "ok" =>
          LET r == rt[s].resp IN
          /\ w[s].status \in {0, r.status}
          /\ pc[s] \in {"http_body", "done"} => w[s].status = r.status
          /\ w[s].status # 0 =>
                \A k \in RawKeys : IsSubseq(r.header[k], w[s].sent[CanonicalKey(k)])
          /\ IsPrefix(w[s].body, r.body)
          /\ w[s].body # <<>> => w[s].status = r.status
          /\ pc[s] = "done" => w[s].body = r.body

C4_Witness ==
    \E s \in Sess :
       /\ rt[s].result = "ok"
       /\ pc[s] = "done"
       /\ w[s].status = 404
       /\ w[s].sent["Set-Cookie"] = <<"a=1", "b=2">>
       /\ w[s].body = <<"b1", "b2">>

\* C5: when RoundTrip returned an error, the response is 502 with a plain-text
\* body that names the error, RoundTrip was called once, the handler has
\* returned and the process keeps serving; no request calls RoundTrip twice.
C5_TransportError502 ==
    /\ \A s \in Sess :
          /\ rt[s].calls <= 1
          /\ rt[s].result = "err" =>
                /\ w[s].status = 502
                /\ w[s].sent["Content-Type"] = <<"text/plain; charset=utf-8">>
                /\ w[s].body = <<"Proxy Error: dial tcp: i/o timeout\n">>
                /\ rt[s].calls = 1
                /\ pc[s] = "done"
    /\ faulted => proc = "serving"

C5_Witness ==
    \E s \in Sess :
       /\ rt[s].result = "err"
       /\ w[s].status = 502
       /\ faulted

\* C7: once handleTunnel has returned, no connection it held is open: the
\* client connection is closed if it was taken over, the target connection is
\* closed if the dial succeeded, and there is none otherwise.
C7_AllClosedOnReturn ==
    \A s \in Sess :
       (pc[s] = "done" /\ handled[s] = <<"handleTunnel">>) =>
          /\ conn[s].client # "open"
          /\ conn[s].target # "open"
          /\ req[s].hijack = "ok" => conn[s].client = "closed"
          /\ tun[s].dial = "ok" => conn[s].target = "closed"
          /\ tun[s].dial # "ok" => conn[s].target = "none"

C7_Witness ==
    \E s \in Sess :
       /\ pc[s] = "done"
       /\ tun[s].dial = "ok"
       /\ conn[s].client = "closed"
       /\ conn[s].target = "closed"

\* C8 as stated: in an established tunnel a connection is closed only when
\* both copy directions have finished.
C8_ClosedOnlyAfterBoth ==
    \A s \in Sess :
       (tun[s].dial = "ok" /\ (conn[s].client = "closed" \/ conn[s].target = "closed")) =>
          tun[s].c2t = "done" /\ tun[s].t2c = "done"

\* C8 as amended: in an established tunnel the handler closes no connection
\* while the target-to-client copy runs, also when the client-to-target copy
\* has finished; once the target-to-client copy has finished and the handler
\* has returned, both connections are closed, whether or not the
\* client-to-target copy has finished.
C8_ClosedAfterTargetToClient ==
    \A s \in Sess :
       tun[s].dial = "ok" =>
          /\ (conn[s].client = "closed" \/ conn[s].target = "closed") => tun[s].t2c = "done"
          /\ tun[s].t2c = "running" => conn[s].client = "open" /\ conn[s].target = "open"
          /\ pc[s] = "done" => conn[s].client = "closed" /\ conn[s].target = "closed"

C8_Witness ==
    \E s \in Sess :
       /\ tun[s].dial = "ok"
       /\ tun[s].t2c = "done"
       /\ tun[s].c2t = "running"
       /\ conn[s].client = "closed"
       /\ conn[s].target = "closed"

\* The peers of the document of the last /status response.
DocPeers == IF sresp.json = <<>> THEN <<>> ELSE sresp.json[1].peers.v

C9_HealthAlwaysOK ==
    /\ statusLn = "up" => ENABLED HandleHealth
    /\ sresp.path = "/health" =>
          /\ sresp.w.status = 200
          /\ sresp.w.body = <<"OK">>
          /\ sresp.calls = 0

C9_Witness ==
    /\ sresp.path = "/health"
    /\ sresp.w.status = 200
    /\ ~sresp.seen.lc
    /\ ~sresp.seen.st

\* C10, the response: a /status response is 500 with a plain-text body and no
\* JSON document when LocalClient or Status failed, and 200 with the encoded
\* document exactly when both succeeded.
C10_StatusResponse ==
    sresp.path = "/status" =>
       IF sresp.seen.lc /\ sresp.seen.st
       THEN /\ sresp.w.status = 200
            /\ sresp.w.sent["Content-Type"] = <<"application/json">>
            /\ sresp.w.body = <<JsonChunk>>
            /\ Len(sresp.json) = 1
            /\ sresp.json[1].backend_state \in BackendStates
       ELSE /\ sresp.w.status = 500
            /\ sresp.w.sent["Content-Type"] = <<"text/plain; charset=utf-8">>
            /\ sresp.json = <<>>
            /\ sresp.w.body = <<IF sresp.seen.lc
                                THEN "failed to get status: tsnet: not running\n"
                                ELSE "failed to get local client: tsnet: not running\n">>

\* C10: every /status response is as C10_StatusResponse says, and a step of
\* the status API changes nothing of the proxy sessions or of the process.
C10_StatusQueryFaults ==
    /\ []C10_StatusResponse
    /\ [][sresp' # sresp => UNCHANGED <<proc, proxyVars>>]_vars

C10_Witness ==
    /\ sresp.path = "/status"
    /\ sresp.w.status = 500
    /\ sresp.seen.lc
    /\ ~sresp.seen.st
    /\ \E s \in Sess : pc[s] = "piping"

\* The keys of an encoded PeerStatus.
PeerStatusKeys ==
    {"name", "hostname", "tailscale_ips", "online", "direct", "relayed_via",
     "current_address", "rx_bytes", "tx_bytes", "last_seen", "last_handshake"}

\* The status API answered /status with a document.
HasDoc == sresp.path = "/status" /\ sresp.json # <<>>

\* C11 as stated: two queries over the same snapshot yield the same peer
\* order. Refuted: the snapshot keeps its peers in a map and the projection
\* ranges over it, so a second query may list the same peers in another order.
C11_SameSnapshotSameOrder ==
    [][(HasDoc /\ HasDoc' /\ sresp'.snap = sresp.snap)
         => sresp'.json[1].peers = sresp.json[1].peers]_vars

\* C11 (amended): the peers sequence of a status document has exactly one
\* record for each peer of the snapshot and no other record; their order is
\* whatever order the range over the snapshot's map produced.
C11_OneRecordPerPeer ==
    HasDoc =>
        /\ Len(DocPeers) = Cardinality(sresp.snap.Peer)
        /\ \A k \in sresp.snap.Peer :
              Cardinality({i \in 1..Len(DocPeers) :
                             DocPeers[i].name = PeerOf(k).DNSName}) = 1

C11_Witness ==
    /\ HasDoc
    /\ sresp.snap.Peer = {"k1", "k2"}
    /\ Len(DocPeers) = 2
    /\ DocPeers[1].name = "peer2.tailnet.ts.net"
    /\ DocPeers[2].name = "peer1.tailnet.ts.net"

\* C12 as stated: every key is present in a successful /status response and
\* a value with nothing to report is an empty string, an empty array or zero;
\* peers and every tailscale_ips are arrays even when empty. Refuted: a nil
\* slice is encoded as null.
C12_EmptyValuesNotNull ==
    HasDoc =>
        LET d == sresp.json[1] IN
        /\ DOMAIN d = {"self", "peers", "backend_state"}
        /\ DOMAIN d.self = PeerStatusKeys
        /\ d.peers.t = "array"
        /\ d.self.tailscale_ips.t = "array"
        /\ \A i \in 1..Len(d.peers.v) :
              /\ DOMAIN d.peers.v[i] = PeerStatusKeys
              /\ d.peers.v[i].tailscale_ips.t = "array"

\* C13: a status document always has a self record. Without a self in the
\* snapshot every field of it is zero-valued; with one it carries the self's
\* DNS name, host name, addresses in canonical text and online flag.
C13_SelfRecord ==
    HasDoc =>
        LET self == sresp.json[1].self IN
        /\ "self" \in DOMAIN sresp.json[1]
        /\ DOMAIN self = PeerStatusKeys
        /\ self.direct = FALSE /\ self.relayed_via = "" /\ self.current_address = ""
        /\ self.rx_bytes = 0 /\ self.tx_bytes = 0
        /\ self.last_seen = "" /\ self.last_handshake = ""
        /\ IF sresp.snap.hasSelf
           THEN /\ self.name = "my-proxy.tailnet.ts.net"
                /\ self.hostname = "my-proxy"
                /\ self.tailscale_ips.v = <<"100.64.0.10", "fd7a:115c:a1e0::1">>
                /\ self.online = TRUE
           ELSE /\ self.name = "" /\ self.hostname = ""
                /\ self.tailscale_ips.v = <<>>
                /\ self.online = FALSE

C13_Witness ==
    /\ HasDoc
    /\ ~sresp.snap.hasSelf
    /\ sresp.snap.Peer # {}
    /\ sresp.json[1].self.name = ""
    /\ sresp.json[1].self.tailscale_ips.v = <<>>

\* C14: the last_seen and last_handshake of a peer record are the empty
\* string exactly when the peer's timestamp is the zero time, and its RFC3339
\* text otherwise; the keys are always present.
C14_Timestamps ==
    HasDoc =>
        \A i \in 1..Len(DocPeers) :
            /\ {"last_seen", "last_handshake"} \subseteq DOMAIN DocPeers[i]
            /\ \E k \in sresp.snap.Peer :
                  /\ PeerOf(k).DNSName = DocPeers[i].name
                  /\ (DocPeers[i].last_seen = "") <=> (PeerOf(k).LastSeen = 0)
                  /\ (DocPeers[i].last_handshake = "") <=> (PeerOf(k).LastHandshake = 0)
                  /\ PeerOf(k).LastSeen # 0 =>
                        DocPeers[i].last_seen = FormatRFC3339(PeerOf(k).LastSeen)
                  /\ PeerOf(k).LastHandshake # 0 =>
                        DocPeers[i].last_handshake = FormatRFC3339(PeerOf(k).LastHandshake)

C14_Witness ==
    /\ HasDoc
    /\ \E i \in 1..Len(DocPeers) :
          /\ DocPeers[i].last_seen = ""
          /\ DocPeers[i].last_handshake = "2026-01-19T20:29:55Z"

TunnelEdges ==
    {<<"tunnel", "dial">>, <<"dial", "dialing">>, <<"dialing", "established">>,
     <<"dialing", "dial_failed">>, <<"established", "spawn">>, <<"spawn", "piping">>,
     <<"piping", "return">>, <<"dial_failed", "return">>, <<"return", "done">>}

\* The status lines written to the raw client connection of session s.
StatusLines(s) ==
    {i \in 1..Len(conn[s].clientOut) : conn[s].clientOut[i] \in {Line200, Line502}}

\* A byte has been copied in one of the directions of the tunnel of s.
BytesCopied(s) ==
    \/ conn[s].targetOut # <<>>
    \/ \E i \in 1..Len(conn[s].clientOut) : conn[s].clientOut[i] \notin {Line200, Line502}
    \/ tun[s].cPos > 0 \/ tun[s].tPos > 0

SessionState(s) == <<pc[s], req[s], handled[s], w[s], rt[s], conn[s], tun[s]>>
SessionStateNext(s) == <<pc'[s], req'[s], handled'[s], w'[s], rt'[s], conn'[s], tun'[s]>>

\* C16: two concurrent sessions are independent under every interleaving. A
\* step of one session - a dial failure, a copied byte, the end of a copy,
\* the closing of its connections - leaves the other session's connections,
\* delivered bytes, response and position as they were, and the process
\* keeps serving; what a tunnel has delivered is always its own status line
\* followed by a prefix of its own target's stream.
C16_SessionsIndependent ==
    /\ [](proc = "serving")
    /\ [](\A u \in PairSess :
            (req[u].method = MethodConnect /\ conn[u].clientOut # <<>>
               /\ tun[u].dial = "ok") =>
                /\ conn[u].clientOut
                     = <<Line200>> \o SubSeq(TargetStream, 1, tun[u].tPos)
                /\ conn[u].targetOut
                     = SubSeq(ClientStream, tun[u].buffered + 1,
                              tun[u].buffered + tun[u].cPos))
    /\ [][\A s, u \in PairSess :
            (s # u /\ SessionStateNext(s) # SessionState(s))
              => (SessionStateNext(u) = SessionState(u) /\ proc' = proc)]_vars

C16_Witness ==
    /\ req[1].method = MethodConnect /\ req[2].method = MethodConnect
    /\ req[1].host # req[2].host
    /\ pc[1] = "done" /\ tun[1].dial = "ok"
    /\ conn[1].client = "closed" /\ conn[1].target = "closed"
    /\ pc[2] = "piping"
    /\ conn[2].client = "open" /\ conn[2].target = "open"
    /\ tun[2].tPos = MaxBytes /\ tun[2].cPos = MaxBytes

\* The elements of a sequence.
Range(f) == {f[i] : i \in DOMAIN f}

\* main() has settled: the proxy serves or the process has exited.
Settled == boot.pc \in {"serving", "exited"}

\* What C17 says of every run about the proxy listener.
C17_ProxyListeners ==
    /\ Len(boot.started) <= 1
    /\ Range(boot.started) \subseteq {boot.mode} \cap {"http", "socks5"}
    /\ boot.ln = "bound" => boot.started = <<boot.mode>>
    /\ boot.pc = "serving" => boot.ln = "bound"
    /\ (boot.mode \notin {"http", "socks5"} /\ Settled) =>
          /\ boot.started = <<>>
          /\ proc = "exited" /\ boot.exit # 0 /\ boot.fault # ""

\* C17 as stated: at most one proxy listener, the one of the mode, and the
\* status listener is started if and only if a status port was configured.
\* Refuted: with a status port configured, a startup that fails before the
\* overlay is up exits without ever starting the status listener.
C17_StatusIffConfigured ==
    /\ C17_ProxyListeners
    /\ Settled => ((statusLn # "off") <=> (boot.statusPort # ""))

\* C17 (amended): at most one proxy listener is ever started, HTTP in mode
\* http and SOCKS5 in mode socks5; any other mode starts none and ends the
\* process with an error. The status listener is started only if a status
\* port was configured, and it is started in exactly the runs that have one
\* configured and in which the overlay bring-up succeeded.
C17_Listeners ==
    /\ C17_ProxyListeners
    /\ statusLn # "off" => boot.statusPort # ""
    /\ Settled =>
          ((statusLn # "off")
             <=> (boot.statusPort # "" /\ SignalConnected \in Range(boot.signals)))

C17_Witness ==
    /\ boot.pc = "exited"
    /\ boot.mode = "ftp"
    /\ boot.statusPort # ""
    /\ boot.started = <<>>
    /\ statusLn = "up"

\* A startup fault of main() or of the status listener has happened.
StartupFault == boot.fault # "" \/ statusLn = "failed"

\* C18 as stated: every startup fault, a listener bind failure included, is
\* fatal, so the program takes no step after it other than exiting. Refuted:
\* after the status listener failed to bind, main() goes on and the proxy
\* accepts traffic.
C18_EveryStartupFaultFatal ==
    [][StartupFault => (proc' = "exited" /\ pc' = pc)]_vars

\* C18 (amended): a startup fault of main() - the state directory cannot be
\* determined or created, the overlay bring-up fails or times out, the proxy
\* cannot be created or its listener cannot bind, the mode is unknown - is
\* fatal: a diagnostic is printed, the process exits with a non-zero status
\* and has accepted, and will accept, no proxy traffic. A bind failure of
\* the status listener is only logged: the process keeps running.
C18_MainFaultsFatal ==
    /\ boot.fault # "" =>
          /\ boot.fault \in {"getwd", "statedir", "bringup", "socks5", "mode", "bind"}
          /\ proc = "exited" /\ boot.pc = "exited"
          /\ boot.exit # 0
          /\ boot.diag # ""
          /\ boot.ln = "none"
          /\ \A s \in Slots : pc[s] = "idle" /\ conn[s] = NewConn /\ w[s] = NewWriter
          /\ ~ENABLED (\E s \in Slots : Accept(s))
    /\ proc = "exited" => boot.fault # ""
    /\ (statusLn = "failed" /\ boot.fault = "") => proc # "exited"

C18_Witness ==
    /\ boot.fault = "bind"
    /\ boot.mode = "http"
    /\ boot.started = <<"http">>
    /\ proc = "exited"
    /\ boot.exit = 1

\* C19 as stated: the signals of a successful startup are STARTING,
\* CONNECTING, CONNECTED, LISTENING, READY, once each and in that order;
\* CONNECTED is printed only after the overlay bring-up succeeded, LISTENING
\* only when the proxy is listening and READY only when the proxy accepts
\* connections on the announced address. Refuted: LISTENING and READY are
\* printed before ListenAndServe is called.
C19_SignalsTrackStartup ==
    LET five == <<SignalStarting, SignalConnecting, SignalConnected,
                  SignalListening, SignalReady>> IN
    /\ boot.fault = "" => IsPrefix(boot.signals, five)
    /\ boot.pc = "serving" => boot.signals = five
    /\ SignalConnected \in Range(boot.signals) =>
          boot.pc \notin {"start", "statedir", "connecting", "up"}
    /\ SignalListening \in Range(boot.signals) =>
          (boot.ln = "bound" \/ boot.fault # "")
    /\ SignalReady \in Range(boot.signals) =>
          (boot.ln = "bound" /\ ENABLED (\E s \in Slots : Accept(s)))

\* C21: a CONNECT request whose client connection cannot be taken over - the
\* writer is no http.Hijacker, or Hijack returns an error - is answered
\* through the ResponseWriter (500 when hijacking is unsupported, 503 with the
\* error text when Hijack fails); the handler makes no dial, opens no target
\* connection, writes no raw status line and closes nothing.
C21_TakeoverFailure ==
    \A s \in Sess :
        (req[s].method = MethodConnect /\ req[s].hijack # "ok") =>
            /\ conn[s] = NewConn
            /\ tun[s] = NewTun
            /\ rt[s] = NewRt
            /\ pc[s] \in {"serve", "tunnel", "done"}
            /\ pc[s] # "done" => w[s] = NewWriter
            /\ pc[s] = "done" =>
                  /\ handled[s] = <<"handleTunnel">>
                  /\ w[s].status = IF req[s].hijack = "unsupported"
                                   THEN StatusInternalServerError
                                   ELSE StatusServiceUnavailable
                  /\ w[s].body = IF req[s].hijack = "unsupported"
                                 THEN <<"Hijacking not supported\n">>
                                 ELSE <<"hijack failed\n">>

C21_Witness ==
    \E s \in Sess :
        /\ pc[s] = "done"
        /\ req[s].method = MethodConnect
        /\ req[s].hijack = "error"
        /\ w[s].status = StatusServiceUnavailable
        /\ conn[s].client = "none"
        /\ tun[s].dialCalls = 0

\* C22: the CONNECT dial is made on network "tcp" to the host:port of the
\* request, under a background context. The cancellation or expiry of the
\* request's own context changes nothing of the dial, and the handler leaves
\* Dialing only when the Dialer returns a connection or an error.
C22_BackgroundDial ==
    /\ [](\A s \in Sess :
            tun[s].dialCalls > 0 =>
                /\ tun[s].dialArgs = <<"background", "tcp", req[s].host>>
                /\ req[s].host \in Hosts)
    /\ [][\A s \in Sess :
            /\ req'[s].ctx # req[s].ctx /\ req[s].ctx = "live" =>
                  pc'[s] = pc[s] /\ tun'[s] = tun[s] /\ conn'[s] = conn[s]
            /\ (pc[s] = "dialing" /\ pc'[s] # "dialing") =>
                  /\ req'[s] = req[s]
                  /\ \/ pc'[s] = "established" /\ tun'[s].dial = "ok"
                     \/ pc'[s] = "dial_failed" /\ tun'[s].dial = "failed"]_vars

C22_Witness ==
    /\ pc[1] = "dialing"
    /\ req[1].ctx = "cancelled"
    /\ tun[1].dial = "none"
    /\ tun[1].dialArgs = <<"background", "tcp", "db:5432">>

\* C23: in SOCKS5 mode the dial of a client session goes to the overlay
\* Dialer with the context, network and address the SOCKS5 server supplied,
\* and the Dialer's connection or error is returned unchanged. A dial
\* failure is reported to the session that asked for it alone: the step of
\* one session leaves the other session, the process and the listener as
\* they were.
C23_SocksDelegation ==
    /\ [](proc = "serving" /\ boot.ln = "bound" /\ boot.started = <<"socks5">>)
    /\ [](\A s \in PairSess :
            /\ socks[s].pc \in {"dialing", "returned", "replied"} =>
                  /\ socks[s].dialArgs = socks[s].ask
                  /\ socks[s].ask[1] = "ctx" \o ToString(s)
                  /\ socks[s].ask[3] \in Hosts
            /\ socks[s].pc \in {"returned", "replied"} =>
                  /\ socks[s].ret = socks[s].res
                  /\ socks[s].res \in DialResults
            /\ socks[s].pc = "replied" =>
                  (socks[s].reply = "failure" <=> socks[s].res.err # ""))
    /\ [][\A s, u \in PairSess :
            (s # u /\ socks'[s] # socks[s]) =>
                (socks'[u] = socks[u] /\ proc' = proc /\ boot' = boot)]_vars

C23_Witness ==
    /\ socks[1].pc = "replied" /\ socks[1].reply = "failure"
    /\ socks[1].ret.err = "dial tcp: i/o timeout"
    /\ socks[2].pc = "replied" /\ socks[2].reply = "succeeded"
    /\ socks[2].ret.conn = "overlay-conn"
    /\ socks[1].ask[3] # socks[2].ask[3]

\* C24 as stated: in a tunnel the bytes delivered to the target are a prefix
\* of what the client sent after the CONNECT request, and the bytes delivered
\* to the client after the 200 line are a prefix of what the target sent.
\* Refuted for the client's direction: the bytes the server had buffered
\* behind the request head are dropped, the target gets what follows them.
C24_PrefixPerDirection ==
    \A s \in Sess :
        tun[s].dial = "ok" =>
            /\ IsPrefix(conn[s].targetOut, ClientStream)
            /\ conn[s].clientOut # <<>> =>
                  /\ conn[s].clientOut[1] = Line200
                  /\ IsPrefix(Tail(conn[s].clientOut), TargetStream)

\* C25: in an established tunnel, once the target-to-client copy has
\* finished, the handler eventually returns with both connections closed and
\* the client-to-target copy eventually ends too, whatever the client does.
C25_TunnelTerminates ==
    (tun[1].dial = "ok" /\ tun[1].t2c = "done")
        ~> (/\ pc[1] = "done"
            /\ conn[1].client = "closed" /\ conn[1].target = "closed"
            /\ tun[1].c2t = "done")

C25_Witness ==
    /\ pc[1] = "done"
    /\ tun[1].dial = "ok"
    /\ tun[1].t2c = "done" /\ tun[1].c2t = "done"
    /\ conn[1].client = "closed" /\ conn[1].target = "closed"
    /\ tun[1].buffered = 0 /\ tun[1].cPos = 0
    /\ conn[1].targetOut = <<>>

\* The positions of the ERROR signal among the signals printed so far.
ErrorSignals == {i \in 1..Len(boot.signals) : boot.signals[i] = SignalError}

\* The faults that end main(): working-directory lookup, state-directory
\* creation, overlay bring-up, SOCKS5 server creation, unknown mode and a
\* failure of the proxy server.
MainFaults == {"getwd", "statedir", "bringup", "socks5", "mode", "bind"}

\* C26: every path of main() that ends the process because of a fault
\* prints exactly one ERROR signal before the process ends, ERROR is printed
\* on no other path, and once ERROR is printed no further signal follows.
C26_OneErrorThenExit ==
    /\ [](/\ boot.fault # "" <=> boot.pc = "exited"
          /\ boot.fault # "" =>
                /\ boot.fault \in MainFaults
                /\ ErrorSignals = {Len(boot.signals)}
                /\ Len(boot.signals) > 0
          /\ boot.fault = "" => ErrorSignals = {})
    /\ [][ErrorSignals # {} => boot'.signals = boot.signals]_vars

C26_Witness ==
    /\ boot.fault = "bringup"
    /\ boot.signals = <<SignalStarting, SignalConnecting, SignalError>>
    /\ boot.pc = "exited"
====
